---- MODULE Spec2Model ----
(***************************************************************************)
(* Model of gix-ignore's Search (src/gix-ignore/src/search.rs): ordered    *)
(* accumulation of pattern lists and the reverse-scan precedence rule.     *)
(*                                                                         *)
(* Encoding: Option<T> is a sequence of length 0 (None) or 1 (Some(x));    *)
(* byte strings are sequences of one-character strings.                    *)
(***************************************************************************)
EXTENDS Integers, Sequences, FiniteSets, TLC

\* ------------------------------------------------------------------ bounds
\* most calls of add_patterns_buffer in one behaviour
MaxAdds == 2
\* most strings handed to from_overrides
MaxOverrides == 2

\* ------------------------------------------------------- option and bytes
None == <<>>
Some(x) == <<x>>
IsSome(o) == Len(o) = 1
Unwrap(o) == o[1]

\* ASCII lower-casing of one byte, as eq_ignore_ascii_case compares
Lower(c) == IF c = "A" THEN "a" ELSE IF c = "S" THEN "s" ELSE IF c = "B" THEN "b" ELSE c

\* byte equality under a case mode
ByteEq(x, y, case) == IF case = "Fold" THEN Lower(x) = Lower(y) ELSE x = y

\* bytes[from..]
Tail_from(s, from) == SubSeq(s, from + 1, Len(s))

\* relative_path.rfind(b"/").map(|p| p + 1): 0-based start of the basename
RECURSIVE rfind_slash(_, _)
rfind_slash(s, i) ==
  IF i = 0 THEN None
  ELSE IF s[i] = "/" THEN Some(i)
  ELSE rfind_slash(s, i - 1)

basename_pos_of(path) == rfind_slash(path, Len(path))

\* ------------------------------------------------ glob pattern (gix_glob)
\* wildmatch with NO_MATCH_SLASH_LITERAL: `*` matches any run of non-slash
\* bytes, every other byte matches itself (case folded on request)
RECURSIVE wildmatch(_, _, _)
wildmatch(pat, text, case) ==
  IF pat = <<>> THEN text = <<>>
  ELSE IF Head(pat) = "*"
    THEN \/ wildmatch(Tail(pat), text, case)
         \/ /\ text # <<>>
            /\ Head(text) # "/"
            /\ wildmatch(pat, Tail(text), case)
  ELSE /\ text # <<>>
       /\ ByteEq(Head(pat), Head(text), case)
       /\ wildmatch(Tail(pat), Tail(text), case)

HasSlash(s) == \E i \in 1..Len(s) : s[i] = "/"

\* gix_glob::Pattern::from_bytes: None for an empty line; a trailing slash
\* sets MUST_BE_DIR, a leading slash ABSOLUTE, no inner slash NO_SUB_DIR,
\* a leading `!` NEGATIVE
Pattern_from_bytes(line) ==
  LET neg   == line # <<>> /\ Head(line) = "!"
      l1    == IF neg THEN Tail(line) ELSE line
      abs   == l1 # <<>> /\ Head(l1) = "/"
      l2    == IF abs THEN Tail(l1) ELSE l1
      dir   == l2 # <<>> /\ l2[Len(l2)] = "/"
      l3    == IF dir THEN SubSeq(l2, 1, Len(l2) - 1) ELSE l2
  IN IF l3 = <<>> THEN None
     ELSE Some([text |-> l3, negative |-> neg, absolute |-> abs,
                must_be_dir |-> dir, no_sub_dir |-> ~HasSlash(l3)])

\* gix_glob::Pattern::matches_repo_relative_path
matches_repo_relative_path(pattern, path, basename_start_pos, is_dir, case) ==
  LET dir == IF IsSome(is_dir) THEN Unwrap(is_dir) ELSE FALSE
      pos == IF IsSome(basename_start_pos) THEN Unwrap(basename_start_pos) ELSE 0
  IN IF ~dir /\ pattern.must_be_dir THEN FALSE
     ELSE IF pattern.no_sub_dir /\ ~pattern.absolute
       THEN wildmatch(pattern.text, Tail_from(path, pos), case)
     ELSE wildmatch(pattern.text, path, case)

\* ----------------------------------------------------- line parser (parse)
\* crate::parse: numbers lines from 1, skips comments and lines without a
\* pattern, reads a leading `$` as the precious marker when enabled
RECURSIVE parse_from(_, _, _)
parse_from(lines, line_no, support_precious) ==
  IF lines = <<>> THEN <<>>
  ELSE LET line     == Head(lines)
           rest     == parse_from(Tail(lines), line_no + 1, support_precious)
           precious == support_precious /\ line # <<>> /\ Head(line) = "$"
           body     == IF precious THEN Tail(line) ELSE line
           pat      == Pattern_from_bytes(body)
       IN IF line # <<>> /\ Head(line) = "#" THEN rest
          ELSE IF pat = None THEN rest
          ELSE <<[pattern |-> Unwrap(pat), line_number |-> line_no,
                  kind |-> IF precious THEN "Precious" ELSE "Expendable"]>> \o rest

parse(bytes, support_precious) == parse_from(bytes, 1, support_precious)

\* Ignore::bytes_to_patterns
RECURSIVE bytes_to_patterns_of(_)
bytes_to_patterns_of(parsed) ==
  IF parsed = <<>> THEN <<>>
  ELSE <<[pattern |-> Head(parsed).pattern, value |-> Head(parsed).kind,
          sequence_number |-> Head(parsed).line_number]>>
       \o bytes_to_patterns_of(Tail(parsed))

bytes_to_patterns(bytes, parse_cfg) == bytes_to_patterns_of(parse(bytes, parse_cfg))

\* ------------------------------------------- pattern::List (gix_glob::search)
\* List::from_bytes: the entries parsed from `bytes`, the file as origin and
\* the supplied base
List_from_bytes(bytes, source, root, parse_cfg) ==
  [patterns |-> bytes_to_patterns(bytes, parse_cfg), source |-> Some(source), base |-> root]

\* List::from_file: Ok(None) for a missing file, Err for any other I/O
\* failure, else the list of the bytes read
List_from_file(file, source, root, parse_cfg) ==
  IF file.state = "missing" THEN [ok |-> TRUE, val |-> None]
  ELSE IF file.state = "ioerr" THEN [ok |-> FALSE, val |-> None]
  ELSE [ok |-> TRUE, val |-> Some(List_from_bytes(file.bytes, source, root, parse_cfg))]

\* the scratch buffer after read_in_full_ignore_missing: cleared, then filled
\* with what was read
read_in_full(file) == IF file.state = "present" THEN file.bytes ELSE <<>>

\* base is a prefix of path under the case mode
is_prefix(base, path, case) ==
  /\ Len(base) <= Len(path)
  /\ \A i \in 1..Len(base) : ByteEq(base[i], path[i], case)

\* List::strip_base_handle_recompute_basename_pos: None when the path lies
\* outside the base, else the path below the base with its basename position
strip_base_handle_recompute_basename_pos(list, relative_path, basename_pos, case) ==
  IF list.base = None THEN Some([path |-> relative_path, pos |-> basename_pos])
  ELSE LET base == Unwrap(list.base)
       IN IF ~is_prefix(base, relative_path, case) THEN None
          ELSE Some([path |-> Tail_from(relative_path, Len(base)),
                     pos  |-> IF IsSome(basename_pos) /\ Unwrap(basename_pos) - Len(base) # 0
                                THEN Some(Unwrap(basename_pos) - Len(base))
                                ELSE None])

\* ---------------------------------------------------- matching in one list
\* list.patterns.iter().rev().find_map(..): greatest index at or below i whose
\* pattern matches, 0 when none does
RECURSIVE rev_find(_, _, _, _, _)
rev_find(list, i, stripped, is_dir, case) ==
  IF i = 0 THEN 0
  ELSE IF matches_repo_relative_path(list.patterns[i].pattern, stripped.path, stripped.pos, is_dir, case)
    THEN i
  ELSE rev_find(list, i - 1, stripped, is_dir, case)

\* variant: the index of the first matching entry (enumerate without .rev())
RECURSIVE fwd_find_idx(_, _, _, _, _)
fwd_find_idx(list, i, stripped, is_dir, case) ==
  IF i > Len(list.patterns) THEN 0
  ELSE IF matches_repo_relative_path(list.patterns[i].pattern, stripped.path, stripped.pos, is_dir, case)
    THEN i
  ELSE fwd_find_idx(list, i + 1, stripped, is_dir, case)

pattern_idx_matching_first_entry(list, relative_path, basename_pos, is_dir, case) ==
  LET s == strip_base_handle_recompute_basename_pos(list, relative_path, basename_pos, case)
  IN IF s = None THEN None
     ELSE LET i == fwd_find_idx(list, 1, Unwrap(s), is_dir, case)
          IN IF i = 0 THEN None ELSE Some(i - 1)

\* pattern_idx_matching_relative_path (0-based index)
pattern_idx_matching_relative_path(list, relative_path, basename_pos, is_dir, case) ==
  LET s == strip_base_handle_recompute_basename_pos(list, relative_path, basename_pos, case)
  IN IF s = None THEN None
     ELSE LET i == rev_find(list, Len(list.patterns), Unwrap(s), is_dir, case)
          IN IF i = 0 THEN None ELSE Some(i - 1)

\* variant: the first matching entry in file order wins (no .rev())
RECURSIVE fwd_find(_, _, _, _, _)
fwd_find(list, i, stripped, is_dir, case) ==
  IF i > Len(list.patterns) THEN 0
  ELSE IF matches_repo_relative_path(list.patterns[i].pattern, stripped.path, stripped.pos, is_dir, case)
    THEN i
  ELSE fwd_find(list, i + 1, stripped, is_dir, case)

pattern_matching_first_entry(list, relative_path, basename_pos, is_dir, case) ==
  LET s == strip_base_handle_recompute_basename_pos(list, relative_path, basename_pos, case)
  IN IF s = None THEN None
     ELSE LET i == fwd_find(list, 1, Unwrap(s), is_dir, case)
          IN IF i = 0 THEN None
             ELSE Some([pattern |-> list.patterns[i].pattern,
                        kind |-> list.patterns[i].value,
                        source |-> list.source,
                        sequence_number |-> list.patterns[i].sequence_number])

\* variant: a path outside the base is matched as it is instead of ending the
\* call (the `?` after the strip is lost)
pattern_matching_ignoring_base(list, relative_path, basename_pos, is_dir, case) ==
  LET s0 == strip_base_handle_recompute_basename_pos(list, relative_path, basename_pos, case)
      s  == IF s0 = None THEN [path |-> relative_path, pos |-> basename_pos] ELSE Unwrap(s0)
      i  == rev_find(list, Len(list.patterns), s, is_dir, case)
  IN IF i = 0 THEN None
     ELSE Some([pattern |-> list.patterns[i].pattern,
                kind |-> list.patterns[i].value,
                source |-> list.source,
                sequence_number |-> list.patterns[i].sequence_number])

\* pattern_matching_relative_path
pattern_matching_relative_path(list, relative_path, basename_pos, is_dir, case) ==
  LET s == strip_base_handle_recompute_basename_pos(list, relative_path, basename_pos, case)
  IN IF s = None THEN None
     ELSE LET i == rev_find(list, Len(list.patterns), Unwrap(s), is_dir, case)
          IN IF i = 0 THEN None
             ELSE Some([pattern |-> list.patterns[i].pattern,
                        kind |-> list.patterns[i].value,
                        source |-> list.source,
                        sequence_number |-> list.patterns[i].sequence_number])

\* ------------------------------------------------------------------ Search
\* self.patterns.iter().rev().find_map(..) from list k downwards
RECURSIVE rev_find_list(_, _, _, _, _, _)
rev_find_list(lists, k, relative_path, basename_pos, is_dir, case) ==
  IF k = 0 THEN None
  ELSE LET m == pattern_matching_relative_path(lists[k], relative_path, basename_pos, is_dir, case)
       IN IF m # None THEN m
          ELSE rev_find_list(lists, k - 1, relative_path, basename_pos, is_dir, case)

\* variant: only the list inserted last is asked (find_map became next + map)
Search_matching_last_list_only(lists, relative_path, is_dir, case) ==
  IF lists = <<>> THEN None
  ELSE pattern_matching_relative_path(lists[Len(lists)], relative_path, basename_pos_of(relative_path),
                                      is_dir, case)

\* variant: the lists are scanned in insertion order (no .rev())
RECURSIVE fwd_find_list(_, _, _, _, _, _)
fwd_find_list(lists, k, relative_path, basename_pos, is_dir, case) ==
  IF k > Len(lists) THEN None
  ELSE LET m == pattern_matching_relative_path(lists[k], relative_path, basename_pos, is_dir, case)
       IN IF m # None THEN m
          ELSE fwd_find_list(lists, k + 1, relative_path, basename_pos, is_dir, case)

Search_matching_insertion_order(lists, relative_path, is_dir, case) ==
  fwd_find_list(lists, 1, relative_path, basename_pos_of(relative_path), is_dir, case)

\* Search::pattern_matching_relative_path
Search_pattern_matching_relative_path(lists, relative_path, is_dir, case) ==
  rev_find_list(lists, Len(lists), relative_path, basename_pos_of(relative_path), is_dir, case)

\* --------------------------------------------------------------- input sets
\* contents of ignore files and buffers, one element per line
Buffers ==
  { <<>>,
    << <<"*">>, <<"a">> >>,
    << <<"a">>, <<"s", "/">> >> }

\* states of a file on disk as from_file sees it
Files ==
  { [state |-> "missing", bytes |-> <<>>], [state |-> "ioerr", bytes |-> <<>>] }
  \cup { [state |-> "present", bytes |-> b] : b \in { <<>>, << <<"$", "a">>, <<"*">> >> } }

\* base directories handed to add_patterns_buffer
Roots == { None, Some(<<"s", "/">>) }

\* override strings: `valid` is whether the OsString converts to bytes
OverrideStrings ==
  { [valid |-> TRUE,  bytes |-> << <<"a">> >>],
    [valid |-> TRUE,  bytes |-> << <<"#">> >>],
    [valid |-> TRUE,  bytes |-> << <<"#">>, <<"*">>, <<"s", "/">> >>],
    [valid |-> FALSE, bytes |-> << <<"a">> >>] }

RECURSIVE SeqsUpTo(_, _)
SeqsUpTo(S, n) ==
  IF n = 0 THEN { <<>> }
  ELSE LET shorter == SeqsUpTo(S, n - 1)
       IN shorter \cup { Append(q, x) : q \in { r \in shorter : Len(r) = n - 1 }, x \in S }

Paths == { <<"a">>, <<"s">>, <<"s", "/", "a">>, <<"S", "/", "a">> }
Cases == { "Sensitive", "Fold" }
IsDirs == { None, Some(TRUE) }

\* ------------------------------------------------------------------- state
VARIABLES
  phase,     \* "new" before construction, "built" with a Search, "failed" after Err
  patterns,  \* Search::patterns
  buf,       \* the caller's scratch buffer handed to from_git_dir
  adds,      \* calls of add_patterns_buffer so far
  last,      \* the last constructing or mutating call with its arguments
  query,     \* the arguments of the last query, if any
  result,    \* what the last query returned
  verdicts,  \* what the two list-level entry points return for it, list by list
  readers,   \* concurrent readers of a built Search: their call in progress
  serde,     \* a credential Context on its way through write_to and from_bytes
  trav       \* one call of the breadth-first tree traversal

vars == <<phase, patterns, buf, adds, last, query, result, verdicts, readers, serde, trav>>

\* the parts of the state one component leaves to the others
NoSerde == [pc |-> "unused"]
NoTrav == [pc |-> "unused"]

\* threads that query one shared, built Search
Readers == { "r1", "r2" }

Idle == [pc |-> "idle", q |-> None, k |-> 0, res |-> None]

Init ==
  /\ phase = "new"
  /\ patterns = <<>>
  /\ buf = <<>>
  /\ adds = 0
  /\ last = [op |-> "none"]
  /\ query = None
  /\ result = None
  /\ verdicts = <<>>
  /\ readers = [r \in Readers |-> Idle]
  /\ serde = NoSerde
  /\ trav = NoTrav

\* ------------------------------------------------------------ construction
\* group.patterns.extend(option)
extend(lists, opt) == IF opt = None THEN lists ELSE Append(lists, Unwrap(opt))

\* variant: info/exclude is inserted before the global excludes file
from_git_dir_local_first(excludes_file, global, local, parse_cfg) ==
  LET r1 == IF excludes_file = None THEN [ok |-> TRUE, val |-> None]
            ELSE List_from_file(global, Unwrap(excludes_file), None, parse_cfg)
      r2 == List_from_file(local, "info/exclude", None, parse_cfg)
  IN IF ~r1.ok THEN [ok |-> FALSE, val |-> <<>>, buf |-> read_in_full(global)]
     ELSE IF ~r2.ok THEN [ok |-> FALSE, val |-> <<>>, buf |-> read_in_full(local)]
     ELSE [ok |-> TRUE, val |-> extend(extend(<<>>, r2.val), r1.val), buf |-> read_in_full(local)]

\* variant: a file that is not there still contributes a list, an empty one
from_git_dir_list_for_missing(excludes_file, global, local, parse_cfg) ==
  LET r1 == IF excludes_file = None THEN [ok |-> TRUE, val |-> None]
            ELSE List_from_file(global, Unwrap(excludes_file), None, parse_cfg)
      v1 == IF excludes_file # None /\ r1.ok /\ r1.val = None
              THEN Some(List_from_bytes(<<>>, Unwrap(excludes_file), None, parse_cfg))
              ELSE r1.val
      r2 == List_from_file(local, "info/exclude", None, parse_cfg)
      v2 == IF r2.ok /\ r2.val = None
              THEN Some(List_from_bytes(<<>>, "info/exclude", None, parse_cfg))
              ELSE r2.val
  IN IF ~r1.ok THEN [ok |-> FALSE, val |-> <<>>, buf |-> read_in_full(global)]
     ELSE IF ~r2.ok THEN [ok |-> FALSE, val |-> <<>>, buf |-> read_in_full(local)]
     ELSE [ok |-> TRUE, val |-> extend(extend(<<>>, v1), v2), buf |-> read_in_full(local)]

\* variant: an I/O error on info/exclude is swallowed and the lists loaded so
\* far are returned
from_git_dir_partial(excludes_file, global, local, parse_cfg) ==
  LET r1 == IF excludes_file = None THEN [ok |-> TRUE, val |-> None]
            ELSE List_from_file(global, Unwrap(excludes_file), None, parse_cfg)
      g1 == extend(<<>>, r1.val)
      r2 == List_from_file(local, "info/exclude", None, parse_cfg)
  IN IF ~r1.ok THEN [ok |-> FALSE, val |-> <<>>, buf |-> read_in_full(global)]
     ELSE [ok |-> TRUE, val |-> extend(g1, r2.val), buf |-> read_in_full(local)]

\* Search::from_git_dir: the global excludes file first, then info/exclude;
\* `?` returns the first I/O error
from_git_dir(excludes_file, global, local, parse_cfg) ==
  LET r1 == IF excludes_file = None THEN [ok |-> TRUE, val |-> None]
            ELSE List_from_file(global, Unwrap(excludes_file), None, parse_cfg)
      g1 == extend(<<>>, r1.val)
      r2 == List_from_file(local, "info/exclude", None, parse_cfg)
  IN IF ~r1.ok THEN [ok |-> FALSE, val |-> <<>>, buf |-> read_in_full(global)]
     ELSE IF ~r2.ok THEN [ok |-> FALSE, val |-> <<>>, buf |-> read_in_full(local)]
     ELSE [ok |-> TRUE, val |-> extend(g1, r2.val), buf |-> read_in_full(local)]

FromGitDir ==
  /\ phase = "new"
  /\ \E excludes_file \in { None, Some("excludes") }, global \in Files, local \in Files,
        parse_cfg \in BOOLEAN :
       LET r == from_git_dir(excludes_file, global, local, parse_cfg)
       IN /\ phase' = IF r.ok THEN "built" ELSE "failed"
          /\ patterns' = r.val
          /\ buf' = r.buf
          /\ last' = [op |-> "from_git_dir", excludes_file |-> excludes_file,
                      global |-> global, local |-> local, parse |-> parse_cfg]
  /\ UNCHANGED <<adds, query, result, verdicts, readers, serde, trav>>

\* the filter_map of from_overrides_inner from position seq_id (0-based) on
RECURSIVE overrides_from(_, _, _)
overrides_from(strings, seq_id, parse_cfg) ==
  IF strings = <<>> THEN <<>>
  ELSE LET s      == Head(strings)
           rest   == overrides_from(Tail(strings), seq_id + 1, parse_cfg)
           parsed == parse(s.bytes, parse_cfg)
       IN IF ~s.valid THEN rest
          ELSE IF parsed = <<>> THEN rest
          ELSE <<[pattern |-> Head(parsed).pattern, value |-> Head(parsed).kind,
                  sequence_number |-> seq_id + 1]>> \o rest

\* variant: every pattern a string parses to is kept, not only the first
RECURSIVE overrides_all_from(_, _, _)
overrides_all_from(strings, seq_id, parse_cfg) ==
  IF strings = <<>> THEN <<>>
  ELSE LET s    == Head(strings)
           rest == overrides_all_from(Tail(strings), seq_id + 1, parse_cfg)
       IN IF ~s.valid THEN rest
          ELSE [i \in 1..Len(parse(s.bytes, parse_cfg)) |->
                  [pattern |-> parse(s.bytes, parse_cfg)[i].pattern,
                   value |-> parse(s.bytes, parse_cfg)[i].kind,
                   sequence_number |-> seq_id + 1]] \o rest

from_overrides_all_patterns(strings, parse_cfg) ==
  << [patterns |-> overrides_all_from(strings, 0, parse_cfg), source |-> None, base |-> None] >>

\* variant: the entries are numbered after the unparsable strings are dropped
RECURSIVE renumber(_, _)
renumber(entries, n) ==
  IF entries = <<>> THEN <<>>
  ELSE <<[Head(entries) EXCEPT !.sequence_number = n]>> \o renumber(Tail(entries), n + 1)

from_overrides_numbered_after_filter(strings, parse_cfg) ==
  << [patterns |-> renumber(overrides_from(strings, 0, parse_cfg), 1), source |-> None, base |-> None] >>

\* Search::from_overrides_inner
from_overrides_inner(strings, parse_cfg) ==
  << [patterns |-> overrides_from(strings, 0, parse_cfg), source |-> None, base |-> None] >>

FromOverrides ==
  /\ phase = "new"
  /\ \E strings \in SeqsUpTo(OverrideStrings, MaxOverrides), parse_cfg \in BOOLEAN :
       /\ patterns' = from_overrides_inner(strings, parse_cfg)
       /\ last' = [op |-> "from_overrides", strings |-> strings, parse |-> parse_cfg]
  /\ phase' = "built"
  /\ UNCHANGED <<buf, adds, query, result, verdicts, readers, serde, trav>>

\* ---------------------------------------------------------------- mutation
\* variant: the base is dropped, the new list applies tree-wide
add_patterns_buffer_no_base(lists, bytes, source, root, parse_cfg) ==
  Append(lists, List_from_bytes(bytes, source, None, parse_cfg))

\* variant: the new list is inserted in front (lowest priority)
add_patterns_buffer_in_front(lists, bytes, source, root, parse_cfg) ==
  <<List_from_bytes(bytes, source, root, parse_cfg)>> \o lists

\* Search::add_patterns_buffer
add_patterns_buffer(lists, bytes, source, root, parse_cfg) ==
  Append(lists, List_from_bytes(bytes, source, root, parse_cfg))

AddPatternsBuffer ==
  /\ phase = "built"
  /\ adds < MaxAdds
  /\ \E bytes \in Buffers, root \in Roots, parse_cfg \in BOOLEAN :
       LET source == IF root = None THEN ".gitignore" ELSE "s/.gitignore"
       IN /\ patterns' = add_patterns_buffer(patterns, bytes, source, root, parse_cfg)
          /\ last' = [op |-> "add_patterns_buffer", bytes |-> bytes, source |-> source,
                      root |-> root]
  /\ adds' = adds + 1
  \* a Match borrows from the Search, so none is held across the mutation
  /\ query' = None
  /\ result' = None
  /\ verdicts' = <<>>
  /\ UNCHANGED <<phase, buf, readers, serde, trav>>

\* ----------------------------------------------------------------- queries
Query ==
  /\ phase = "built"
  /\ \E path \in Paths, is_dir \in IsDirs, case \in Cases :
       /\ query' = Some([path |-> path, is_dir |-> is_dir, case |-> case])
       /\ result' = Search_pattern_matching_relative_path(patterns, path, is_dir, case)
       /\ verdicts' = [k \in 1..Len(patterns) |->
                         [m   |-> pattern_matching_relative_path(patterns[k], path, basename_pos_of(path),
                                                                 is_dir, case),
                          idx |-> pattern_idx_matching_relative_path(patterns[k], path, basename_pos_of(path),
                                                                     is_dir, case)]]
  /\ UNCHANGED <<phase, patterns, buf, adds, last, readers, serde, trav>>

Next == FromGitDir \/ FromOverrides \/ AddPatternsBuffer \/ Query

Spec == Init /\ [][Next]_vars

\* ------------------------------------------------- readers sharing a Search
\* Searches as the constructors and add_patterns_buffer leave them
ReaderSearches ==
  LET built == { from_git_dir(Some("excludes"), g, l, TRUE).val :
                   g, l \in { f \in Files : f.state = "present" } }
  IN built \cup
     { add_patterns_buffer(b, << <<"*">>, <<"a">> >>, "s/.gitignore", Some(<<"s", "/">>), TRUE) :
         b \in built }

InitReaders ==
  /\ phase = "built"
  /\ patterns \in ReaderSearches
  /\ buf = <<>>
  /\ adds = 0
  /\ last = [op |-> "none"]
  /\ query = None
  /\ result = None
  /\ verdicts = <<>>
  /\ readers = [r \in Readers |-> Idle]
  /\ serde = NoSerde
  /\ trav = NoTrav

\* a reader enters Search::pattern_matching_relative_path: the basename
\* position is computed and the reverse iteration starts at the last list
ReaderStart(r) ==
  /\ readers[r].pc \in {"idle", "done"}
  /\ \E path \in Paths, is_dir \in IsDirs, case \in Cases :
       readers' = [readers EXCEPT ![r] =
                     [pc |-> "scan", q |-> Some([path |-> path, is_dir |-> is_dir, case |-> case]),
                      k |-> Len(patterns), res |-> None]]
  /\ UNCHANGED <<phase, patterns, buf, adds, last, query, result, verdicts, serde, trav>>

\* variant: the scan takes each list it visits out of the Search
ReaderStepConsuming(r) ==
  /\ readers[r].pc = "scan"
  /\ LET me == readers[r]
         q  == Unwrap(me.q)
         k  == IF me.k > Len(patterns) THEN Len(patterns) ELSE me.k
     IN IF k = 0
          THEN /\ readers' = [readers EXCEPT ![r] = [me EXCEPT !.pc = "done", !.res = None, !.k = 0]]
               /\ patterns' = patterns
          ELSE LET m == pattern_matching_relative_path(patterns[k], q.path, basename_pos_of(q.path),
                                                       q.is_dir, q.case)
               IN /\ patterns' = SubSeq(patterns, 1, k - 1)
                  /\ IF m # None
                       THEN readers' = [readers EXCEPT ![r] = [me EXCEPT !.pc = "done", !.res = m]]
                       ELSE readers' = [readers EXCEPT ![r] = [me EXCEPT !.k = k - 1]]
  /\ UNCHANGED <<phase, buf, adds, last, query, result, verdicts, serde, trav>>

\* one step of find_map over the reversed lists: the call returns None when
\* the lists are exhausted, the verdict of the list visited if it has one, and
\* moves to the list inserted before it otherwise
ReaderStep(r) ==
  /\ readers[r].pc = "scan"
  /\ LET me == readers[r]
         q  == Unwrap(me.q)
     IN IF me.k = 0
          THEN readers' = [readers EXCEPT ![r] = [me EXCEPT !.pc = "done", !.res = None]]
          ELSE LET m == pattern_matching_relative_path(patterns[me.k], q.path, basename_pos_of(q.path),
                                                       q.is_dir, q.case)
               IN IF m # None
                    THEN readers' = [readers EXCEPT ![r] = [me EXCEPT !.pc = "done", !.res = m]]
                    ELSE readers' = [readers EXCEPT ![r] = [me EXCEPT !.k = me.k - 1]]
  /\ UNCHANGED <<phase, patterns, buf, adds, last, query, result, verdicts, serde, trav>>

NextReaders == \E r \in Readers : ReaderStart(r) \/ ReaderStep(r)

SpecReaders == InitReaders /\ [][NextReaders]_vars

\* ------------------------------------- credential Context: write_to, from_bytes
\* Bytes are one-character strings; "LF", "CR", "NUL" stand for the control
\* bytes and "xFF" for a byte that is not valid UTF-8.

\* most fields of a Context that are set
MaxFields == 2

\* the keys of the key=value lines
K_url == <<"u", "r", "l">>
K_path == <<"p", "a", "t", "h">>
K_protocol == <<"p", "r", "o", "t", "o", "c", "o", "l">>
K_host == <<"h", "o", "s", "t">>
K_username == <<"u", "s", "e", "r", "n", "a", "m", "e">>
K_password == <<"p", "a", "s", "s", "w", "o", "r", "d">>
K_oauth_refresh_token == <<"o", "a", "u", "t", "h", "_", "r", "e", "f", "r", "e", "s", "h", "_", "t", "o", "k", "e", "n">>
K_password_expiry_utc == <<"p", "a", "s", "s", "w", "o", "r", "d", "_", "e", "x", "p", "i", "r", "y", "_", "u", "t", "c">>
K_quit == <<"q", "u", "i", "t">>

\* Context::default()
DefaultContext ==
  [protocol |-> None, host |-> None, path |-> None, username |-> None, password |-> None,
   oauth_refresh_token |-> None, password_expiry_utc |-> None, url |-> None, quit |-> None]

Contains(s, b) == \E i \in 1..Len(s) : s[i] = b

\* validate: a key or value with a NUL or a newline is refused
validate(key, value) ==
  ~(Contains(key, "NUL") \/ Contains(key, "LF") \/ Contains(value, "NUL") \/ Contains(value, "LF"))

is_utf8(s) == ~Contains(s, "xFF")

DigitChars == <<"0", "1", "2", "3", "4", "5", "6", "7", "8", "9">>

\* i64::to_string
RECURSIVE nat_to_string(_)
nat_to_string(n) ==
  IF n < 10 THEN <<DigitChars[n + 1]>>
  ELSE nat_to_string(n \div 10) \o <<DigitChars[(n % 10) + 1]>>

i64_to_string(n) == IF n < 0 THEN <<"-">> \o nat_to_string(0 - n) ELSE nat_to_string(n)

IsDigit(c) == \E d \in 1..10 : DigitChars[d] = c
DigitValue(c) == (CHOOSE d \in 1..10 : DigitChars[d] = c) - 1

RECURSIVE digits_value(_, _)
digits_value(s, acc) ==
  IF s = <<>> THEN acc ELSE digits_value(Tail(s), acc * 10 + DigitValue(Head(s)))

\* str::parse::<i64>().ok(): an optional sign and at least one digit
parse_i64(s) ==
  LET signed == s # <<>> /\ Head(s) \in {"-", "+"}
      body   == IF signed THEN Tail(s) ELSE s
  IN IF body = <<>> \/ \E i \in 1..Len(body) : ~IsDigit(body[i]) THEN None
     ELSE IF signed /\ Head(s) = "-" THEN Some(0 - digits_value(body, 0))
     ELSE Some(digits_value(body, 0))

\* write_key: key, `=`, value, newline
write_key(out, key, value) == out \o key \o <<"=">> \o value \o <<"LF">>

\* the fields write_to writes, in its order; quit is not among them
write_entries_of(ctx) ==
  << [key |-> K_url, val |-> ctx.url],
     [key |-> K_path, val |-> ctx.path],
     [key |-> K_protocol, val |-> ctx.protocol],
     [key |-> K_host, val |-> ctx.host],
     [key |-> K_username, val |-> ctx.username],
     [key |-> K_password, val |-> ctx.password],
     [key |-> K_oauth_refresh_token, val |-> ctx.oauth_refresh_token],
     [key |-> K_password_expiry_utc,
      val |-> IF ctx.password_expiry_utc = None THEN None
              ELSE Some(i64_to_string(Unwrap(ctx.password_expiry_utc)))] >>

RECURSIVE write_entries(_, _)
write_entries(es, out) ==
  IF es = <<>> THEN [ok |-> TRUE, out |-> out]
  ELSE IF Head(es).val = None THEN write_entries(Tail(es), out)
  ELSE IF ~validate(Head(es).key, Unwrap(Head(es).val)) THEN [ok |-> FALSE, out |-> out]
  ELSE write_entries(Tail(es), write_key(out, Head(es).key, Unwrap(Head(es).val)))

\* Context::write_to into memory
write_to(ctx) == write_entries(write_entries_of(ctx), <<>>)

\* position of the first byte b in s, 0 if there is none
RECURSIVE find_byte(_, _, _)
find_byte(s, b, i) ==
  IF i > Len(s) THEN 0 ELSE IF s[i] = b THEN i ELSE find_byte(s, b, i + 1)

\* ByteSlice::lines: the lines without their terminator, which is \n or \r\n
RECURSIVE lines(_)
lines(input) ==
  IF input = <<>> THEN <<>>
  ELSE LET i == find_byte(input, "LF", 1)
       IN IF i = 0 THEN <<input>>
          ELSE LET raw  == SubSeq(input, 1, i - 1)
                   line == IF raw # <<>> /\ raw[Len(raw)] = "CR"
                             THEN SubSeq(raw, 1, Len(raw) - 1) ELSE raw
               IN <<line>> \o lines(SubSeq(input, i + 1, Len(input)))

\* take_while(|line| !line.is_empty())
RECURSIVE take_while_nonempty(_)
take_while_nonempty(ls) ==
  IF ls = <<>> \/ Head(ls) = <<>> THEN <<>> ELSE <<Head(ls)>> \o take_while_nonempty(Tail(ls))

\* gix_config_value::Boolean::try_from(..).ok()
Boolean_try_from(value) ==
  IF value \in { <<"1">>, <<"o", "n">> } THEN Some(TRUE)
  ELSE IF value \in { <<"0">>, <<"n", "o">> } THEN Some(FALSE)
  ELSE None

\* the body of the loop of from_bytes for one key and value
decode_key(ctx, key, value) ==
  IF key \in {K_protocol, K_host, K_username, K_password, K_oauth_refresh_token}
    THEN IF ~is_utf8(value) THEN [ok |-> FALSE, ctx |-> ctx]
         ELSE [ok |-> TRUE,
               ctx |-> IF key = K_protocol THEN [ctx EXCEPT !.protocol = Some(value)]
                       ELSE IF key = K_host THEN [ctx EXCEPT !.host = Some(value)]
                       ELSE IF key = K_username THEN [ctx EXCEPT !.username = Some(value)]
                       ELSE IF key = K_password THEN [ctx EXCEPT !.password = Some(value)]
                       ELSE [ctx EXCEPT !.oauth_refresh_token = Some(value)]]
  ELSE IF key = K_password_expiry_utc
    THEN [ok |-> TRUE,
          ctx |-> [ctx EXCEPT !.password_expiry_utc = IF is_utf8(value) THEN parse_i64(value) ELSE None]]
  ELSE IF key = K_url THEN [ok |-> TRUE, ctx |-> [ctx EXCEPT !.url = Some(value)]]
  ELSE IF key = K_path THEN [ok |-> TRUE, ctx |-> [ctx EXCEPT !.path = Some(value)]]
  ELSE IF key = K_quit THEN [ok |-> TRUE, ctx |-> [ctx EXCEPT !.quit = Boolean_try_from(value)]]
  ELSE [ok |-> TRUE, ctx |-> ctx]

\* the loop of from_bytes: split each line at its first `=`, validate, store
RECURSIVE decode_lines(_, _)
decode_lines(ls, ctx) ==
  IF ls = <<>> THEN [ok |-> TRUE, ctx |-> ctx]
  ELSE LET line  == Head(ls)
           eq    == find_byte(line, "=", 1)
           key   == SubSeq(line, 1, eq - 1)
           value == SubSeq(line, eq + 1, Len(line))
       IN IF eq = 0 \/ ~is_utf8(key) THEN [ok |-> FALSE, ctx |-> ctx]
          ELSE IF ~validate(key, value) THEN [ok |-> FALSE, ctx |-> ctx]
          ELSE LET r == decode_key(ctx, key, value)
               IN IF ~r.ok THEN r ELSE decode_lines(Tail(ls), r.ctx)

\* Context::from_bytes; on Err no Context is returned
from_bytes(input) ==
  LET r == decode_lines(take_while_nonempty(lines(input)), DefaultContext)
  IN IF r.ok THEN [ok |-> TRUE, ctx |-> Some(r.ctx)] ELSE [ok |-> FALSE, ctx |-> None]

\* values of the fields
StrValues == { <<>>, <<"a">>, <<"a", "=">>, <<"a", "CR">>, <<"CR", "a">>, <<"LF">>, <<"NUL">> }
FieldValues ==
  [protocol |-> StrValues, host |-> StrValues, username |-> StrValues, password |-> StrValues,
   oauth_refresh_token |-> StrValues,
   path |-> StrValues \cup { <<"xFF">> }, url |-> StrValues \cup { <<"xFF">> },
   password_expiry_utc |-> { 0, 12, 0 - 3 },
   quit |-> { TRUE, FALSE }]

FieldsSet(ctx) == Cardinality({ f \in DOMAIN ctx : ctx[f] # None })

InitSerde ==
  /\ phase = "new"
  /\ patterns = <<>>
  /\ buf = <<>>
  /\ adds = 0
  /\ last = [op |-> "none"]
  /\ query = None
  /\ result = None
  /\ verdicts = <<>>
  /\ readers = [r \in Readers |-> Idle]
  /\ serde = [pc |-> "new", ctx |-> DefaultContext, wrote |-> None, decoded |-> None]
  /\ trav = NoTrav

\* the caller fills in a field of the Context
SerdeSetField ==
  /\ serde.pc = "new"
  /\ FieldsSet(serde.ctx) < MaxFields
  /\ \E f \in DOMAIN FieldValues : \E v \in FieldValues[f] :
       /\ serde.ctx[f] = None
       /\ serde' = [serde EXCEPT !.ctx = [serde.ctx EXCEPT ![f] = Some(v)]]
  /\ UNCHANGED <<phase, patterns, buf, adds, last, query, result, verdicts, readers, trav>>

SerdeWriteTo ==
  /\ serde.pc = "new"
  /\ serde' = [serde EXCEPT !.pc = "written", !.wrote = Some(write_to(serde.ctx))]
  /\ UNCHANGED <<phase, patterns, buf, adds, last, query, result, verdicts, readers, trav>>

SerdeFromBytes ==
  /\ serde.pc = "written"
  /\ Unwrap(serde.wrote).ok
  /\ serde' = [serde EXCEPT !.pc = "decoded", !.decoded = Some(from_bytes(Unwrap(serde.wrote).out))]
  /\ UNCHANGED <<phase, patterns, buf, adds, last, query, result, verdicts, readers, trav>>

NextSerde == SerdeSetField \/ SerdeWriteTo \/ SerdeFromBytes

SpecSerde == InitSerde /\ [][NextSerde]_vars

\* ------------------------------------------------ breadth-first tree traversal
Entry(name, mode, oid) == [name |-> name, mode |-> mode, oid |-> oid]

\* the object database: the entries of each tree that can be found. The tree
\* "tc" is referenced but not stored, and the entry "x" of "tb" does not decode.
ObjectDb ==
  [ root |-> << Entry("f", "blob", "b1"), Entry("a", "tree", "ta"),
                Entry("b", "tree", "tb"), Entry("c", "tree", "tc") >>,
    ta   |-> << Entry("d", "tree", "td"), Entry("g", "blob", "b2") >>,
    tb   |-> << Entry("x", "corrupt", "b3") >>,
    td   |-> << Entry("h", "blob", "b4") >> ]

\* what a delegate may answer
Actions == { "Continue", "Skip", "Cancel" }

Call(call, name, action) == [call |-> call, name |-> name, action |-> action]

\* a State as an earlier traversal may have left it
InitTrav ==
  /\ phase = "new"
  /\ patterns = <<>>
  /\ buf = <<>>
  /\ adds = 0
  /\ last = [op |-> "none"]
  /\ query = None
  /\ result = None
  /\ verdicts = <<>>
  /\ readers = [r \in Readers |-> Idle]
  /\ serde = NoSerde
  /\ \E old_next \in { <<>>, <<"ta">> }, old_buf \in { None, Some("td") } :
       trav = [pc |-> "start", tree |-> <<>>, next |-> old_next, buf |-> old_buf,
               calls |-> <<>>, loaded |-> <<>>, ret |-> None]

\* State::clear
State_clear(t) == [t EXCEPT !.next = <<>>, !.buf = None]

\* breadthfirst up to the loop: the state is cleared, the root is the tree
TravStart ==
  /\ trav.pc = "start"
  /\ trav' = [State_clear(trav) EXCEPT !.pc = "entries", !.tree = ObjectDb["root"]]
  /\ UNCHANGED <<phase, patterns, buf, adds, last, query, result, verdicts, readers, serde>>

\* one round of `for entry in tree`
TravEntry ==
  /\ trav.pc = "entries"
  /\ trav.tree # <<>>
  /\ LET entry == Head(trav.tree)
         rest  == Tail(trav.tree)
         push  == Call("push_path_component", entry.name, "-")
         pop   == Call("pop_path_component", "-", "-")
     IN \/ /\ entry.mode = "corrupt"
           /\ trav' = [trav EXCEPT !.pc = "done", !.ret = Some("Err(ObjectDecode)")]
        \/ /\ entry.mode = "tree"
           /\ \E action \in Actions :
                LET visit == Call("visit_tree", entry.name, action)
                IN IF action = "Skip"
                     THEN trav' = [trav EXCEPT !.tree = rest, !.calls = @ \o <<push, visit, pop>>]
                   ELSE IF action = "Continue"
                     THEN trav' = [trav EXCEPT
                                     !.tree = rest,
                                     !.next = Append(@, entry.oid),
                                     !.calls = @ \o <<push, visit, pop,
                                                      Call("push_back_tracked_path_component", entry.name, "-"),
                                                      pop>>]
                   ELSE trav' = [trav EXCEPT !.pc = "done", !.ret = Some("Err(Cancelled)"),
                                             !.calls = @ \o <<push, visit>>]
        \/ /\ entry.mode = "blob"
           /\ \E action \in Actions :
                LET visit == Call("visit_nontree", entry.name, action)
                IN IF action = "Cancel"
                     THEN trav' = [trav EXCEPT !.pc = "done", !.ret = Some("Err(Cancelled)"),
                                               !.calls = @ \o <<push, visit>>]
                     ELSE trav' = [trav EXCEPT !.tree = rest, !.calls = @ \o <<push, visit, pop>>]
  /\ UNCHANGED <<phase, patterns, buf, adds, last, query, result, verdicts, readers, serde>>

\* variant: the queue is served from its back
TravNextTreeLifo ==
  /\ trav.pc = "entries"
  /\ trav.tree = <<>>
  /\ IF trav.next = <<>>
       THEN trav' = [trav EXCEPT !.pc = "done", !.ret = Some("Ok")]
       ELSE LET oid  == trav.next[Len(trav.next)]
                left == SubSeq(trav.next, 1, Len(trav.next) - 1)
                pop  == Call("pop_front_tracked_path_and_set_current", "-", "-")
            IN IF oid \in DOMAIN ObjectDb
                 THEN trav' = [trav EXCEPT !.next = left, !.calls = Append(@, pop),
                                           !.buf = Some(oid), !.tree = ObjectDb[oid],
                                           !.loaded = Append(@, oid)]
                 ELSE trav' = [trav EXCEPT !.next = left, !.calls = Append(@, pop),
                                           !.pc = "done", !.ret = Some("Err(Find)")]
  /\ UNCHANGED <<phase, patterns, buf, adds, last, query, result, verdicts, readers, serde>>

\* the tree is exhausted: state.next.pop_front() ends the traversal or gives
\* the tree to load next
TravNextTree ==
  /\ trav.pc = "entries"
  /\ trav.tree = <<>>
  /\ IF trav.next = <<>>
       THEN trav' = [trav EXCEPT !.pc = "done", !.ret = Some("Ok")]
       ELSE LET oid == Head(trav.next)
                pop == Call("pop_front_tracked_path_and_set_current", "-", "-")
            IN IF oid \in DOMAIN ObjectDb
                 THEN trav' = [trav EXCEPT !.next = Tail(@), !.calls = Append(@, pop),
                                           !.buf = Some(oid), !.tree = ObjectDb[oid],
                                           !.loaded = Append(@, oid)]
                 ELSE trav' = [trav EXCEPT !.next = Tail(@), !.calls = Append(@, pop),
                                           !.pc = "done", !.ret = Some("Err(Find)")]
  /\ UNCHANGED <<phase, patterns, buf, adds, last, query, result, verdicts, readers, serde>>

NextTrav == TravStart \/ TravEntry \/ TravNextTree

SpecTrav == InitTrav /\ [][NextTrav]_vars

\* =================================================================== claims
\* the last query and what each list alone yields for it
Q == Unwrap(query)
Verdict(k) ==
  pattern_matching_relative_path(patterns[k], Q.path, basename_pos_of(Q.path), Q.is_dir, Q.case)

\* entry i of list k matches the queried path after the list's base handling
EntryMatches(k, i) ==
  LET s == strip_base_handle_recompute_basename_pos(patterns[k], Q.path, basename_pos_of(Q.path), Q.case)
  IN /\ s # None
     /\ matches_repo_relative_path(patterns[k].patterns[i].pattern, Unwrap(s).path, Unwrap(s).pos,
                                   Q.is_dir, Q.case)

ListHasMatch(k) == \E i \in 1..Len(patterns[k].patterns) : EntryMatches(k, i)

RemoveAt(seq, k) == SubSeq(seq, 1, k - 1) \o SubSeq(seq, k + 1, Len(seq))

\* C1: cross-list precedence. When two lists, one inserted before the other,
\* both hold an entry matching the queried path, the reported Match is the
\* verdict of the later of the two or of a list inserted later still, and it is
\* not taken from any list up to the earlier one unless a later list yields the
\* very same Match.
C1_CrossListPrecedence ==
  query # None =>
    \A i, j \in 1..Len(patterns) :
      (i < j /\ ListHasMatch(i) /\ ListHasMatch(j)) =>
        /\ result # None
        /\ \E k \in j..Len(patterns) : ListHasMatch(k) /\ result = Verdict(k)

\* two lists with different verdicts both match and the later one is reported
C1_Witness ==
  /\ query # None
  /\ \E i, j \in 1..Len(patterns) :
       /\ i < j
       /\ ListHasMatch(i) /\ ListHasMatch(j)
       /\ Verdict(i) # Verdict(j)
       /\ result = Verdict(j)

\* C2: within-list precedence. In a list where the entries with sequence
\* numbers N1 < N2 both match the queried path and no entry after N2 does, the
\* list reports sequence number N2, and so does the Search when no list
\* inserted later yields a match.
C2_WithinListPrecedence ==
  query # None =>
    \A k \in 1..Len(patterns) :
      \A n1, n2 \in 1..Len(patterns[k].patterns) :
        ( /\ n1 < n2
          /\ EntryMatches(k, n1) /\ EntryMatches(k, n2)
          /\ \A n3 \in (n2 + 1)..Len(patterns[k].patterns) : ~EntryMatches(k, n3) ) =>
          /\ patterns[k].patterns[n1].sequence_number < patterns[k].patterns[n2].sequence_number
          /\ Verdict(k) # None
          /\ Unwrap(Verdict(k)).sequence_number = patterns[k].patterns[n2].sequence_number
          /\ (\A k2 \in (k + 1)..Len(patterns) : ~ListHasMatch(k2)) =>
               /\ result # None
               /\ Unwrap(result).sequence_number = patterns[k].patterns[n2].sequence_number

\* the list `*`, `a` without a base decides the query for s/a with line 2
C2_Witness ==
  /\ query # None
  /\ Q.path = <<"s", "/", "a">>
  /\ \E k \in 1..Len(patterns) :
       /\ patterns[k].base = None
       /\ Len(patterns[k].patterns) = 2
       /\ patterns[k].patterns[1].sequence_number = 1
       /\ patterns[k].patterns[2].sequence_number = 2
       /\ EntryMatches(k, 1) /\ EntryMatches(k, 2)
       /\ \A k2 \in (k + 1)..Len(patterns) : ~ListHasMatch(k2)
       /\ result # None
       /\ Unwrap(result).sequence_number = 2

\* byte-wise prefix, whatever the case mode of the query
BytePrefix(base, path) == is_prefix(base, path, "Sensitive")

\* C3 as stated: a list with a base yields no match for a path that does not
\* start with the bytes of the base.
C3_BaseScopingBytewise ==
  query # None =>
    \A k \in 1..Len(patterns) :
      (patterns[k].base # None /\ ~BytePrefix(Unwrap(patterns[k].base), Q.path)) =>
        Verdict(k) = None

\* C3: base scoping. A list with a base yields no match for a path that is not
\* prefixed by the base under the case mode of the query (byte-wise when
\* case-sensitive, ignoring ASCII case when folding), whatever it contains; the
\* query is then answered as if the list were not there.
C3_BaseScoping ==
  query # None =>
    \A k \in 1..Len(patterns) :
      (patterns[k].base # None /\ ~is_prefix(Unwrap(patterns[k].base), Q.path, Q.case)) =>
        /\ Verdict(k) = None
        /\ result = Search_pattern_matching_relative_path(RemoveAt(patterns, k), Q.path, Q.is_dir, Q.case)

\* a list based at s/ holds `a`, the path a is outside of it, and an earlier
\* list decides
C3_Witness ==
  /\ query # None
  /\ Q.path = <<"a">>
  /\ \E k \in 1..Len(patterns) :
       /\ patterns[k].base = Some(<<"s", "/">>)
       /\ \E i \in 1..Len(patterns[k].patterns) : patterns[k].patterns[i].pattern.text = <<"a">>
       /\ Verdict(k) = None
       /\ \A k2 \in (k + 1)..Len(patterns) : ~ListHasMatch(k2)
       /\ result # None

\* the step is a call of add_patterns_buffer
IsAdd == adds' = adds + 1

\* C4 as stated: appending a list with Some(base) leaves the result for every
\* path that does not start with the bytes of the base as it was.
C4_AppendFrameBytewise ==
  [][ ( /\ IsAdd
        /\ last'.root # None
        /\ query # None
        /\ ~BytePrefix(Unwrap(last'.root), Q.path) ) =>
        Search_pattern_matching_relative_path(patterns', Q.path, Q.is_dir, Q.case) = result ]_vars

\* C4: appending a list with Some(base) leaves the result of a query as it was
\* for every path that is not prefixed by the base under the case mode of that
\* query (byte-wise when case-sensitive, ignoring ASCII case when folding).
C4_AppendFrame ==
  [][ ( /\ IsAdd
        /\ last'.root # None
        /\ query # None
        /\ ~is_prefix(Unwrap(last'.root), Q.path, Q.case) ) =>
        Search_pattern_matching_relative_path(patterns', Q.path, Q.is_dir, Q.case) = result ]_vars

\* the list `*`, `a` was appended with base s/, and the path a, outside of it,
\* is still decided by an earlier list
C4_Witness ==
  /\ last.op = "add_patterns_buffer"
  /\ last.root = Some(<<"s", "/">>)
  /\ last.bytes = << <<"*">>, <<"a">> >>
  /\ query # None
  /\ Q.path = <<"a">>
  /\ result # None
  /\ Verdict(Len(patterns)) = None

\* what from_git_dir was called with
GlobalGiven == last.excludes_file # None
GlobalPresent == GlobalGiven /\ last.global.state = "present"
LocalPresent == last.local.state = "present"

C6_MissingFileNoList ==
  ( /\ last.op = "from_git_dir"
    /\ GlobalGiven => last.global.state # "ioerr"
    /\ last.local.state # "ioerr" ) =>
    /\ phase = "built"
    /\ Len(patterns) = (IF GlobalPresent THEN 1 ELSE 0) + (IF LocalPresent THEN 1 ELSE 0)
    /\ (~GlobalPresent /\ LocalPresent) =>
         (Len(patterns) = 1 /\ patterns[1].source = Some("info/exclude"))
    /\ (~GlobalPresent /\ ~LocalPresent /\ query # None) => result = None

\* the global file was named but is missing, info/exclude is present: one list,
\* and it answers a query
C6_Witness ==
  /\ last.op = "from_git_dir"
  /\ GlobalGiven /\ last.global.state = "missing" /\ LocalPresent
  /\ phase = "built"
  /\ Len(patterns) = 1
  /\ query # None /\ result # None

\* the list a present file must load to
LoadedList(file, source) ==
  [patterns |-> bytes_to_patterns(file.bytes, last.parse), source |-> Some(source), base |-> None]

\* C7: from_git_dir fails exactly when reading the global excludes file or
\* info/exclude hits an I/O error other than not-found. A failure yields no
\* Search, a failure on the global file leaves info/exclude unread, and a
\* success holds the complete list of every present source.
C7_FailsOnlyOnIoError ==
  last.op = "from_git_dir" =>
    /\ phase \in {"built", "failed"}
    /\ phase = "failed" <=>
         ((GlobalGiven /\ last.global.state = "ioerr") \/ last.local.state = "ioerr")
    /\ phase = "failed" => patterns = <<>>
    /\ (GlobalGiven /\ last.global.state = "ioerr") => buf = <<>>
    /\ phase = "built" =>
         patterns = (IF GlobalPresent THEN <<LoadedList(last.global, "excludes")>> ELSE <<>>)
                    \o (IF LocalPresent THEN <<LoadedList(last.local, "info/exclude")>> ELSE <<>>)

\* the global file loads, info/exclude fails with an I/O error: the call
\* fails and nothing of the global list is kept
C7_Witness ==
  /\ last.op = "from_git_dir"
  /\ GlobalPresent /\ last.global.bytes # <<>>
  /\ last.local.state = "ioerr"
  /\ phase = "failed"
  /\ patterns = <<>>

\* an override string that yields a pattern
Parsable(s) == s.valid /\ parse(s.bytes, last.parse) # <<>>

\* C8: from_overrides never fails and returns exactly one list with origin
\* None and base None; every string contributes at most one entry, the first
\* pattern it parses to, unparsable strings contribute none, and the entries
\* follow the order of their strings.
C8_OverridesOneList ==
  last.op = "from_overrides" =>
    /\ phase = "built"
    /\ Len(patterns) = 1
    /\ patterns[1].source = None
    /\ patterns[1].base = None
    /\ LET kept == SelectSeq(last.strings, Parsable)
           got  == patterns[1].patterns
       IN /\ Len(got) = Len(kept)
          /\ Len(got) <= Len(last.strings)
          /\ \A i \in 1..Len(got) :
               /\ got[i].pattern = Head(parse(kept[i].bytes, last.parse)).pattern
               /\ got[i].value = Head(parse(kept[i].bytes, last.parse)).kind

\* two strings, the first unparsable, the second parsing to two patterns: one
\* entry, the first pattern of the second string
C8_Witness ==
  /\ last.op = "from_overrides"
  /\ Len(last.strings) = 2
  /\ ~Parsable(last.strings[1])
  /\ Len(parse(last.strings[2].bytes, last.parse)) = 2
  /\ Len(patterns) = 1
  /\ Len(patterns[1].patterns) = 1
  /\ patterns[1].patterns[1].pattern.text = <<"*">>

\* C9: the Search is append-only. add_patterns_buffer never fails and puts
\* exactly one list at the end, with the given origin and base, also when the
\* buffer holds no pattern; every step keeps the lists that were there, with
\* their entries, origin, base and order. With empty bytes the new list has no
\* entry and the last query returns what it returned before.
C9_AppendOnly ==
  [][ /\ IsAdd =>
           /\ phase' = "built"
           /\ Len(patterns') = Len(patterns) + 1
           /\ patterns'[Len(patterns')].source = Some(last'.source)
           /\ patterns'[Len(patterns')].base = last'.root
           /\ last'.bytes = <<>> =>
                /\ patterns'[Len(patterns')].patterns = <<>>
                /\ query # None =>
                     Search_pattern_matching_relative_path(patterns', Q.path, Q.is_dir, Q.case) = result
      /\ phase = "built" =>
           /\ phase' = "built"
           /\ Len(patterns') >= Len(patterns)
           /\ SubSeq(patterns', 1, Len(patterns)) = patterns ]_vars

\* empty bytes were appended after a list with entries, and that earlier list
\* still answers a query
C9_Witness ==
  /\ last.op = "add_patterns_buffer"
  /\ last.bytes = <<>>
  /\ Len(patterns) >= 2
  /\ patterns[Len(patterns)].patterns = <<>>
  /\ patterns[1].patterns # <<>>
  /\ query # None
  /\ result # None

\* the finished calls agree: the same arguments gave the same result, which is
\* the one the Search as it stands yields for them
ReadersAgree ==
  \A r1 \in Readers :
    readers[r1].pc = "done" =>
      /\ readers[r1].res =
           Search_pattern_matching_relative_path(patterns, Unwrap(readers[r1].q).path,
                                                 Unwrap(readers[r1].q).is_dir, Unwrap(readers[r1].q).case)
      /\ \A r2 \in Readers :
           (readers[r2].pc = "done" /\ readers[r2].q = readers[r1].q) =>
             readers[r2].res = readers[r1].res

\* C10: queries are read-only and deterministic. No step of a query changes
\* the Search, and queries with the same path, is_dir and case, one after the
\* other or interleaved between readers, all return the same result.
C10_ReadOnlyDeterministic ==
  [][ /\ patterns' = patterns
      /\ ReadersAgree' ]_vars

\* two readers finished the same query with a Match while three lists were in
\* the Search
C10_Witness ==
  /\ Len(patterns) = 3
  /\ readers["r1"].pc = "done"
  /\ readers["r2"].pc = "done"
  /\ readers["r1"].q = readers["r2"].q
  /\ readers["r1"].res # None
  /\ readers["r1"].res = readers["r2"].res

\* C11: credential Context round trip. Whenever write_to succeeds, from_bytes
\* applied to the bytes written succeeds and returns a Context equal to the
\* written one in every field, quit included.
C11_RoundTrip ==
  serde.pc = "decoded" =>
    /\ Unwrap(serde.decoded).ok
    /\ Unwrap(serde.decoded).ctx = Some(serde.ctx)

\* the lists that yield a match for the last query, and the last matching entry
Yielding == { k \in 1..Len(patterns) : ListHasMatch(k) }
MaxOf(S) == CHOOSE x \in S : \A y \in S : y <= x
LastMatching(k) == MaxOf({ i \in 1..Len(patterns[k].patterns) : EntryMatches(k, i) })

\* the lists whose base, if any, starts the path byte for byte and which hold a
\* matching entry
YieldingBytewise ==
  { k \in 1..Len(patterns) :
      /\ patterns[k].base = None \/ BytePrefix(Unwrap(patterns[k].base), Q.path)
      /\ ListHasMatch(k) }

\* C12 as stated, the base test read byte for byte: the result is the last
\* matching entry of the last list whose base starts the path and which has a
\* matching entry, and None exactly when there is no such list.
C12_FullScanBytewise ==
  query # None =>
    /\ result = None <=> YieldingBytewise = {}
    /\ YieldingBytewise # {} =>
         LET k == MaxOf(YieldingBytewise)
             e == patterns[k].patterns[LastMatching(k)]
         IN result = Some([pattern |-> e.pattern, kind |-> e.value, source |-> patterns[k].source,
                           sequence_number |-> e.sequence_number])

\* C12: the full scan returns the verdict of the list inserted last among
\* those that yield one: the last matching entry of the last list whose base,
\* if any, prefixes the path under the case mode of the query and which has an
\* entry matching the stripped path.
\* Lists inserted later that are skipped for their base or have no matching
\* entry do not end the scan, and the result is None exactly when no list
\* yields a match.
C12_FullScan ==
  query # None =>
    /\ result = None <=> Yielding = {}
    /\ Yielding # {} =>
         LET k == MaxOf(Yielding)
             e == patterns[k].patterns[LastMatching(k)]
         IN result = Some([pattern |-> e.pattern, kind |-> e.value, source |-> patterns[k].source,
                           sequence_number |-> e.sequence_number])

\* the deciding list is followed by a list skipped for its base and by a list
\* that applies but has no matching entry, both with entries
C12_Witness ==
  /\ query # None
  /\ result # None
  /\ \E k, k2, k3 \in 1..Len(patterns) :
       /\ k = MaxOf(Yielding)
       /\ k2 > k /\ k3 > k
       /\ patterns[k2].base # None
       /\ ~is_prefix(Unwrap(patterns[k2].base), Q.path, Q.case)
       /\ patterns[k2].patterns # <<>>
       /\ strip_base_handle_recompute_basename_pos(patterns[k3], Q.path, basename_pos_of(Q.path), Q.case) # None
       /\ patterns[k3].patterns # <<>>
       /\ ~ListHasMatch(k3)
       /\ result = Verdict(k)

\* C13: the index-only entry point agrees with the full-Match entry point. For
\* every list and query, pattern_idx_matching_relative_path returns Some(i)
\* exactly when pattern_matching_relative_path returns Some(m); i is the
\* greatest index of a matching entry, and m carries the pattern, kind and
\* sequence number of the entry at index i and the origin of the list.
C13_IdxAgreesWithMatch ==
  query # None =>
    /\ Len(verdicts) = Len(patterns)
    /\ \A k \in 1..Len(patterns) :
         LET v == verdicts[k]
         IN /\ v.idx # None <=> v.m # None
            /\ v.idx = None <=> ~ListHasMatch(k)
            /\ v.idx # None =>
                 LET i == Unwrap(v.idx) + 1
                     m == Unwrap(v.m)
                 IN /\ i \in 1..Len(patterns[k].patterns)
                    /\ EntryMatches(k, i)
                    /\ \A n \in (i + 1)..Len(patterns[k].patterns) : ~EntryMatches(k, n)
                    /\ m.pattern = patterns[k].patterns[i].pattern
                    /\ m.kind = patterns[k].patterns[i].value
                    /\ m.sequence_number = patterns[k].patterns[i].sequence_number
                    /\ m.source = patterns[k].source

\* a list whose two entries both match reports index 1, another list of the
\* same Search matches with its first entry only and reports index 0
C13_Witness ==
  /\ query # None
  /\ \E k, k2 \in 1..Len(patterns) :
       /\ Len(patterns[k].patterns) = 2
       /\ EntryMatches(k, 1) /\ EntryMatches(k, 2)
       /\ verdicts[k].idx = Some(1)
       /\ Unwrap(verdicts[k].m).sequence_number = 2
       /\ Len(patterns[k2].patterns) = 2
       /\ EntryMatches(k2, 1) /\ ~EntryMatches(k2, 2)
       /\ verdicts[k2].idx = Some(0)

\* the 1-based positions of the override strings that yield a pattern
RECURSIVE KeptPositions(_, _)
KeptPositions(strings, i) ==
  IF i > Len(strings) THEN <<>>
  ELSE (IF Parsable(strings[i]) THEN <<i>> ELSE <<>>) \o KeptPositions(strings, i + 1)

\* C14: in the list built by from_overrides the entry made from the string at
\* 1-based position i has sequence number i, a dropped string still taking up
\* its position; the sequence numbers are at least 1 and strictly increasing,
\* and a Match reports the position of the override it comes from.
C14_OverrideSequenceNumbers ==
  last.op = "from_overrides" =>
    LET got  == patterns[1].patterns
        kept == KeptPositions(last.strings, 1)
    IN /\ Len(got) = Len(kept)
       /\ \A j \in 1..Len(got) :
            /\ got[j].sequence_number = kept[j]
            /\ got[j].sequence_number >= 1
            /\ got[j].pattern = Head(parse(last.strings[kept[j]].bytes, last.parse)).pattern
       /\ \A j \in 1..(Len(got) - 1) : got[j].sequence_number < got[j + 1].sequence_number
       /\ (query # None /\ result # None) =>
            /\ Unwrap(result).sequence_number \in 1..Len(last.strings)
            /\ Parsable(last.strings[Unwrap(result).sequence_number])
            /\ Unwrap(result).pattern =
                 Head(parse(last.strings[Unwrap(result).sequence_number].bytes, last.parse)).pattern

\* the first of two strings is dropped, and a Match for the second reports 2
C14_Witness ==
  /\ last.op = "from_overrides"
  /\ Len(last.strings) = 2
  /\ ~Parsable(last.strings[1])
  /\ Parsable(last.strings[2])
  /\ Len(patterns[1].patterns) = 1
  /\ patterns[1].patterns[1].sequence_number = 2
  /\ query # None
  /\ result # None
  /\ Unwrap(result).sequence_number = 2

\* what the delegate was told and answered, read off the calls made to it
ContinuedNames ==
  LET c == SelectSeq(trav.calls, LAMBDA x : x.call = "visit_tree" /\ x.action = "Continue")
  IN [k \in 1..Len(c) |-> c[k].name]
PushedBackNames ==
  LET c == SelectSeq(trav.calls, LAMBDA x : x.call = "push_back_tracked_path_component")
  IN [k \in 1..Len(c) |-> c[k].name]
PopFrontCalls ==
  Len(SelectSeq(trav.calls, LAMBDA x : x.call = "pop_front_tracked_path_and_set_current"))

\* the object an entry name refers to (names are unique in ObjectDb)
OidOfName(n) ==
  LET e == CHOOSE e \in UNION { { ObjectDb[t][i] : i \in 1..Len(ObjectDb[t]) } : t \in DOMAIN ObjectDb } :
             e.name = n
  IN e.oid

\* C15: breadth-first traversal. The state is cleared at the start; every
\* subtree answered with Continue is enqueued exactly once, in visiting order,
\* and the subtrees are loaded in that order, each load after exactly one
\* pop_front_tracked_path_and_set_current, so that the k-th pop goes with the
\* k-th push_back_tracked_path_component; a subtree answered with Skip is never
\* loaded; a Cancel from visit_tree or visit_nontree is the last call to the
\* delegate and the traversal returns Error::Cancelled; Ok(()) is returned only
\* with an empty queue, when every enqueued subtree has been loaded.
C15_BreadthFirst ==
  trav.pc \in {"entries", "done"} =>
    LET cont == ContinuedNames
        pops == PopFrontCalls
    IN /\ PushedBackNames = cont
       /\ pops <= Len(cont)
       /\ trav.next = [k \in 1..(Len(cont) - pops) |-> OidOfName(cont[pops + k])]
       /\ Len(trav.loaded) <= pops
       /\ pops <= Len(trav.loaded) + 1
       /\ pops = Len(trav.loaded) + 1 => trav.ret = Some("Err(Find)")
       /\ \A k \in 1..Len(trav.loaded) : trav.loaded[k] = OidOfName(cont[k])
       /\ trav.buf = IF trav.loaded = <<>> THEN None ELSE Some(trav.loaded[Len(trav.loaded)])
       /\ \A i \in 1..Len(trav.calls) :
            /\ (trav.calls[i].call = "visit_tree" /\ trav.calls[i].action = "Skip") =>
                 \A k \in 1..Len(trav.loaded) : trav.loaded[k] # OidOfName(trav.calls[i].name)
            /\ trav.calls[i].action = "Cancel" =>
                 /\ i = Len(trav.calls)
                 /\ trav.pc = "done"
                 /\ trav.ret = Some("Err(Cancelled)")
       /\ trav.ret = Some("Err(Cancelled)") =>
            /\ trav.calls # <<>>
            /\ trav.calls[Len(trav.calls)].action = "Cancel"
       /\ trav.ret = Some("Ok") =>
            /\ trav.pc = "done"
            /\ trav.next = <<>>
            /\ trav.tree = <<>>
            /\ Len(trav.loaded) = Len(cont)
       /\ trav.pc = "done" <=> trav.ret # None

\* a traversal returned Ok after loading two subtrees in the order they were
\* enqueued and skipping another
C15_Witness ==
  /\ trav.ret = Some("Ok")
  /\ trav.loaded = <<"ta", "td">>
  /\ ContinuedNames = <<"a", "d">>
  /\ PopFrontCalls = 2
  /\ \E i \in 1..Len(trav.calls) : trav.calls[i].call = "visit_tree" /\ trav.calls[i].action = "Skip"

====
